---- MODULE Spec2Model ----
(***************************************************************************)
(* A model of pdf-viewer-pro: the App session state (src/App.tsx), the     *)
(* pointer-driven drawing state machine and the page-render effect of      *)
(* PdfCanvasDisplay (src/components/PdfCanvasDisplay.tsx) and the export    *)
(* transform of handleSave.                                                *)
(*                                                                         *)
(* JavaScript numbers are modelled exactly: pixel positions are integers,  *)
(* and every quantity the code obtains by a division (radius, scale,       *)
(* exported geometry) is a normalised rational <<numerator, denominator>>. *)
(* null is the empty sequence and a present value v is <<v>>.              *)
(***************************************************************************)
EXTENDS Integers, Sequences, FiniteSets, TLC

\* ------------------------------------------------------------------ bounds
\* Annotations created in one run of Spec (ids are never reused).
MaxIds == 3
\* Annotations created in one run of SpecGesture.
MaxGestureIds == 2
\* Page count of the loaded document (pdf.numPages).
NumPages == 2
\* Runs of the render effect in one run of SpecRender.
MaxEffectRuns == 4
MaxZoomRuns == 10
MaxInFlight == 2
MaxSaves == 2

\* ------------------------------------------------------ rational numbers
Abs(n) == IF n < 0 THEN -n ELSE n

\* Euclid's algorithm, as a function so that each step works on values.
gcd[p \in Nat \X Nat] == IF p[2] = 0 THEN p[1] ELSE gcd[<<p[2], p[1] % p[2]>>]
Gcd(a, b) == gcd[<<a, b>>]

\* n/d in lowest terms with a positive denominator (d # 0).
rat[p \in Int \X Int] ==
    LET g == Gcd(Abs(p[1]), Abs(p[2]))
        s == IF p[2] < 0 THEN -1 ELSE 1
    IN  <<(s * p[1]) \div g, (s * p[2]) \div g>>
Rat(n, d) == rat[<<n, d>>]

RInt(n) == <<n, 1>>
RMul(a, b) == Rat(a[1] * b[1], a[2] * b[2])
RDiv(a, b) == Rat(a[1] * b[2], a[2] * b[1])
RAdd(a, b) == Rat(a[1] * b[2] + b[1] * a[2], a[2] * b[2])
RSub(a, b) == Rat(a[1] * b[2] - b[1] * a[2], a[2] * b[2])
RLe(a, b) == a[1] * b[2] <= b[1] * a[2]
RLt(a, b) == a[1] * b[2] < b[1] * a[2]
rmin[p \in Seq(Int) \X Seq(Int)] == IF RLe(p[1], p[2]) THEN p[1] ELSE p[2]
rmax[p \in Seq(Int) \X Seq(Int)] == IF RLe(p[1], p[2]) THEN p[2] ELSE p[1]
RMin(a, b) == rmin[<<a, b>>]
RMax(a, b) == rmax[<<a, b>>]

Min(a, b) == IF a <= b THEN a ELSE b
Max(a, b) == IF a >= b THEN a ELSE b

\* ------------------------------------------------------------------ state
VARIABLES
    \* App (src/App.tsx)
    annotations,        \* Annotation[]: the whole collection, insertion order
    currentPage,        \* 1-based
    selectedTool,       \* "select" | "rect" | "circle" | "text"
    currentColor,
    currentFontSize,
    \* PdfCanvasDisplay
    isDrawing,
    startPos,           \* <<>> (null) or <<[x, y]>>
    currentDrawing,     \* <<>> (null) or <<Annotation>>
    textInput,          \* [x, y, visible, text]
    targetScale,        \* TargetScale: <<>> for 'auto', or a rational
    actualRenderScale,  \* a rational
    \* PdfCanvasDisplay: the render effect
    effects,            \* the runs of the effect whose async function has not returned
    currentRenderTaskRef, \* <<>> (null) or <<run whose RenderTask it is>>
    canvas,             \* what the canvas shows
    \* App: the document
    pdfFile,            \* <<>> (null) or <<File>>
    pdfDocProxy,        \* <<>> (null) or <<PDFDocumentProxy>>
    numPages,
    error,              \* <<>> (null) or <<message>>
    isLoading,
    loadPc,             \* where the load of pdfFile stands: "idle", "reading", "parsing"
    \* the export
    customFontBytes,    \* module variable: <<>> (null) or <<bytes>>
    savePc,             \* the await handleSave stands at, or "idle"
    saveJob,            \* what the running handleSave closed over
    drawOps,            \* what handleSave has drawn into the document copy
    saveLog,            \* history: the outcomes of the steps of the latest handleSave
    saveCount,          \* history: calls of handleSave so far
    fontFetches,        \* history: calls of fetch(fontUrl) so far
    downloads,          \* history: downloads triggered so far
    \* environment
    displayArea,        \* the container's bounding box and window.innerWidth
    effectGen,          \* the number of the latest run of the effect
    pendingCommit,      \* a state update of a render awaits React's re-render
    buttonDown,         \* the left pointer button is held
    nextId,             \* stands for Date.now()/Math.random() in the ids
    \* history, read by the properties only
    pointerPos,         \* position of the pointer over the canvas since the last pointerDown
    preGesture,         \* <<collection at pointerDown>> while only pointer events followed
    scaleReportedBy,    \* the run that called onActualScaleChange last
    renderErrors,       \* the runs whose catch called console.error
    zoomInRun           \* zoom-in steps in a row since the scale was 1.0

appVars == <<annotations, currentPage, selectedTool, currentColor, currentFontSize>>
compVars == <<isDrawing, startPos, currentDrawing, textInput>>
envVars == <<buttonDown, nextId>>
histVars == <<pointerPos, preGesture>>
viewVars == <<targetScale, actualRenderScale, displayArea, zoomInRun>>
renderVars == <<effects, currentRenderTaskRef, canvas, effectGen, pendingCommit,
                scaleReportedBy, renderErrors>>
docVars == <<pdfFile, pdfDocProxy, numPages, error, isLoading, loadPc>>
saveVars == <<customFontBytes, savePc, saveJob, saveLog, saveCount, fontFetches,
              downloads>>
exportVars == <<drawOps, docVars, saveVars>>
\* What the drawing handlers and the toolbar's tool, page and clear buttons
\* leave alone.
restVars == <<viewVars, renderVars, exportVars>>
vars == <<appVars, compVars, envVars, histVars, viewVars, renderVars, exportVars>>

\* ----------------------------------------------------------------- inputs
Tools == {"select", "rect", "circle", "text"}
Pos(x, y) == [x |-> x, y |-> y]
\* Pointer positions (canvas pixels): around (50,50) one point in each
\* quadrant, one on its row and one on its column (purely horizontal and
\* purely vertical drags).
Positions ==
    {Pos(50, 50), Pos(80, 60), Pos(20, 30), Pos(80, 30), Pos(20, 60),
     Pos(80, 50), Pos(50, 20)}
\* Where the gestures of SpecGesture start.
Anchors == {Pos(50, 50)}
\* Pointer positions of Spec, where the collection matters and not the shape.
FewPositions == {Pos(50, 50), Pos(80, 60)}
\* Tools of Spec.
FewTools == {"select", "rect"}
\* Contents of the text input: empty, blank, a word.
Texts == {<<>>, <<" ">>, <<"a">>}

\* String.prototype.trim on a sequence of characters.
RECURSIVE TrimStart(_)
TrimStart(s) == IF s # <<>> /\ Head(s) = " " THEN TrimStart(Tail(s)) ELSE s
RECURSIVE TrimEnd(_)
TrimEnd(s) ==
    IF s # <<>> /\ s[Len(s)] = " " THEN TrimEnd(SubSeq(s, 1, Len(s) - 1)) ELSE s
\* The text as typed, blanks kept.
TrimNothing(s) == s

\* textInput.text.trim()
Trim(s) == TrimEnd(TrimStart(s))

HiddenTextInput == [x |-> 0, y |-> 0, visible |-> FALSE, text |-> <<>>]

\* --------------------------------------------------- App: the collection
\* addAnnotation: setAnnotations(prev => [...prev, annotation])
addAnnotation(prev, annotation) == Append(prev, annotation)

\* updateAnnotation: the entry with the id is overwritten field by field and
\* its isDrawing is set to false; the other entries are kept.
updateAnnotation(prev, updated) ==
    [i \in DOMAIN prev |->
        IF prev[i].id = updated.id
        THEN [updated EXCEPT !.isDrawing = FALSE]
        ELSE prev[i]]

\* removeAnnotationById with the test inverted (=== for !==).
removeAnnotationByIdInverted(prev, annotationId) ==
    LET Keep(a) == a.id = annotationId IN SelectSeq(prev, Keep)

\* removeAnnotationById
removeAnnotationById(prev, annotationId) ==
    LET Keep(a) == a.id # annotationId IN SelectSeq(prev, Keep)

\* onClearAnnotations with the test inverted: the current page is what is kept.
clearPageInverted(prev, page) ==
    LET Keep(a) == a.page = page IN SelectSeq(prev, Keep)

\* onClearAnnotations: prev.filter(a => a.page !== currentPage)
clearPage(prev, page) ==
    LET Keep(a) == a.page # page IN SelectSeq(prev, Keep)

\* ------------------------------------------- PdfCanvasDisplay: geometry
\* handleMouseDown's newAnnotation
newAnnotation(id, page, tool, pos, color, fontSize) ==
    [id |-> id, page |-> page, type |-> tool, x |-> pos.x, y |-> pos.y,
     width |-> 0, height |-> 0, radius |-> RInt(0), text |-> <<>>,
     color |-> color, fontSize |-> fontSize, isDrawing |-> TRUE]

\* handleMouseMove for a rectangle that keeps the anchor as the corner and
\* the signed differences as the size.
rectGeometryFromAnchor(drawing, start, pos) ==
    [drawing EXCEPT
        !.x = start.x,
        !.y = start.y,
        !.width = pos.x - start.x,
        !.height = pos.y - start.y]

\* handleMouseMove, selectedTool === 'rect'
rectGeometry(drawing, start, pos) ==
    LET dX == pos.x - start.x
        dY == pos.y - start.y
    IN  [drawing EXCEPT
            !.x = IF dX > 0 THEN start.x ELSE pos.x,
            !.y = IF dY > 0 THEN start.y ELSE pos.y,
            !.width = Abs(dX),
            !.height = Abs(dY)]

\* handleMouseMove for a circle that takes the drag's own bounding box and
\* its width as the radius.
circleGeometryOfBox(drawing, start, pos) ==
    [drawing EXCEPT
        !.x = Min(start.x, pos.x),
        !.y = Min(start.y, pos.y),
        !.width = Abs(pos.x - start.x),
        !.height = Abs(pos.y - start.y),
        !.radius = RInt(Abs(pos.x - start.x))]

\* handleMouseMove, selectedTool === 'circle'
circleGeometry(drawing, start, pos) ==
    LET dX == pos.x - start.x
        dY == pos.y - start.y
        side == Max(Abs(dX), Abs(dY))
    IN  [drawing EXCEPT
            !.x = Min(start.x, pos.x),
            !.y = Min(start.y, pos.y),
            !.width = side,
            !.height = side,
            !.radius = Rat(side, 2)]

\* handleMouseUp's test with && for ||: only a rectangle of no extent at all.
isDegenerateBothZero(a) ==
    \/ a.type = "rect" /\ (a.width = 0 /\ a.height = 0)
    \/ a.type = "circle" /\ a.radius = RInt(0)

\* handleMouseUp's test for an accidental click
isDegenerate(a) ==
    \/ a.type = "rect" /\ (a.width = 0 \/ a.height = 0)
    \/ a.type = "circle" /\ a.radius = RInt(0)

\* handleTextSubmit's annotation (a text annotation carries no isDrawing
\* The text annotation placed at the origin instead of the recorded position.
textAnnotationAtOrigin(id, page, input, color, fontSize) ==
    [id |-> id, page |-> page, type |-> "text", x |-> 0, y |-> 0,
     width |-> 0, height |-> 0, radius |-> RInt(0), text |-> input.text,
     color |-> color, fontSize |-> fontSize, isDrawing |-> FALSE]

\* field: it is not true)
textAnnotation(id, page, input, color, fontSize) ==
    [id |-> id, page |-> page, type |-> "text", x |-> input.x, y |-> input.y,
     width |-> 0, height |-> 0, radius |-> RInt(0), text |-> input.text,
     color |-> color, fontSize |-> fontSize, isDrawing |-> FALSE]

\* ------------------------------------------------ PdfCanvasDisplay: handlers
\* handleTextSubmit, as called from the input (Enter, blur) and from handleMouseDown
textSubmit ==
    /\ IF Trim(textInput.text) # <<>>
       THEN /\ annotations' = addAnnotation(annotations,
                  textAnnotation(nextId, currentPage, textInput, currentColor,
                                 currentFontSize))
            /\ nextId' = nextId + 1
       ELSE UNCHANGED <<annotations, nextId>>
    /\ textInput' = HiddenTextInput

\* The gesture state of the component is cleared.
endGesture == isDrawing' = FALSE /\ startPos' = <<>> /\ currentDrawing' = <<>>

\* handleMouseDown, left button
handleMouseDown(pos) ==
    /\ ~buttonDown
    /\ buttonDown' = TRUE
    /\ IF selectedTool = "select" \/ selectedTool = "text"
       THEN UNCHANGED <<appVars, compVars, nextId, pointerPos, preGesture>>
       ELSE IF textInput.visible
       THEN /\ textSubmit
            /\ preGesture' = <<>>
            /\ UNCHANGED <<currentPage, selectedTool, currentColor, currentFontSize,
                           isDrawing, startPos, currentDrawing, pointerPos>>
       ELSE LET new == newAnnotation(nextId, currentPage, selectedTool, pos,
                                     currentColor, currentFontSize)
            IN  /\ isDrawing' = TRUE
                /\ startPos' = <<pos>>
                /\ currentDrawing' = <<new>>
                /\ annotations' = addAnnotation(annotations, new)
                /\ nextId' = nextId + 1
                /\ pointerPos' = <<pos>>
                /\ preGesture' = <<annotations>>
                /\ UNCHANGED <<currentPage, selectedTool, currentColor,
                               currentFontSize, textInput>>

\* handleMouseMove
handleMouseMove(pos) ==
    /\ IF \/ ~isDrawing \/ startPos = <<>> \/ currentDrawing = <<>>
          \/ selectedTool = "text" \/ selectedTool = "select"
       THEN UNCHANGED <<appVars, compVars, envVars, pointerPos, preGesture>>
       ELSE LET updated == IF selectedTool = "rect"
                           THEN rectGeometry(currentDrawing[1], startPos[1], pos)
                           ELSE circleGeometry(currentDrawing[1], startPos[1], pos)
            IN  /\ currentDrawing' = <<updated>>
                /\ annotations' = updateAnnotation(annotations, updated)
                /\ pointerPos' = <<pos>>
                /\ UNCHANGED <<currentPage, selectedTool, currentColor,
                               currentFontSize, isDrawing, startPos, textInput,
                               envVars, preGesture>>

\* The body of handleMouseUp for the left button.
mouseUp ==
    /\ endGesture
    /\ pointerPos' = <<>>
    /\ preGesture' = <<>>
    /\ UNCHANGED <<currentPage, selectedTool, currentColor, currentFontSize,
                   textInput, nextId>>
    /\ IF \/ ~isDrawing \/ currentDrawing = <<>>
          \/ selectedTool = "text" \/ selectedTool = "select"
       THEN UNCHANGED annotations
       ELSE LET final == [currentDrawing[1] EXCEPT !.isDrawing = FALSE]
            IN  annotations' = IF isDegenerate(final)
                               THEN removeAnnotationById(annotations, final.id)
                               ELSE updateAnnotation(annotations, final)

\* handleMouseUp, left button
handleMouseUp ==
    /\ buttonDown
    /\ buttonDown' = FALSE
    /\ mouseUp

\* handleMouseLeave: the pointer leaves the canvas, the button as it is
handleMouseLeave ==
    /\ UNCHANGED buttonDown
    /\ IF isDrawing /\ currentDrawing # <<>>
          /\ selectedTool # "text" /\ selectedTool # "select"
       THEN mouseUp
       ELSE /\ pointerPos' = <<>>
            /\ UNCHANGED <<appVars, compVars, nextId, preGesture>>

\* handleCanvasClick
handleCanvasClick(pos) ==
    /\ preGesture' = <<>>
    /\ IF selectedTool = "text" /\ ~textInput.visible
       THEN textInput' = [x |-> pos.x, y |-> pos.y, visible |-> TRUE, text |-> <<>>]
       ELSE UNCHANGED textInput
    /\ UNCHANGED <<appVars, isDrawing, startPos, currentDrawing, envVars, pointerPos>>

\* the input's onChange
handleTextChange(text) ==
    /\ textInput.visible
    /\ preGesture' = <<>>
    /\ textInput' = [textInput EXCEPT !.text = text]
    /\ UNCHANGED <<appVars, isDrawing, startPos, currentDrawing, envVars, pointerPos>>

\* handleTextSubmit from the input: Enter, or blur
handleTextSubmit ==
    /\ textInput.visible
    /\ preGesture' = <<>>
    /\ textSubmit
    /\ UNCHANGED <<currentPage, selectedTool, currentColor, currentFontSize,
                   isDrawing, startPos, currentDrawing, buttonDown, pointerPos>>

\* handleTextInputKeyDown, Escape
handleTextCancel ==
    /\ textInput.visible
    /\ preGesture' = <<>>
    /\ textInput' = HiddenTextInput
    /\ UNCHANGED <<appVars, isDrawing, startPos, currentDrawing, envVars, pointerPos>>

\* goToPrevPage
goToPrevPage ==
    /\ preGesture' = <<>>
    /\ currentPage' = IF currentPage > 1 THEN currentPage - 1 ELSE currentPage
    /\ UNCHANGED <<annotations, selectedTool, currentColor, currentFontSize,
                   compVars, envVars, pointerPos>>

\* goToNextPage without its test of numPages.
goToNextPageUnguarded ==
    /\ preGesture' = <<>>
    /\ currentPage' = currentPage + 1
    /\ UNCHANGED <<annotations, selectedTool, currentColor, currentFontSize,
                   compVars, envVars, pointerPos>>

\* goToNextPage
goToNextPage ==
    /\ preGesture' = <<>>
    /\ currentPage' = IF currentPage < NumPages THEN currentPage + 1 ELSE currentPage
    /\ UNCHANGED <<annotations, selectedTool, currentColor, currentFontSize,
                   compVars, envVars, pointerPos>>

\* ------------------------------------------------------- App: the toolbar
\* onToolChange = setSelectedTool
onToolChange(tool) ==
    /\ preGesture' = <<>>
    /\ selectedTool' = tool
    /\ UNCHANGED <<annotations, currentPage, currentColor, currentFontSize,
                   compVars, envVars, pointerPos>>

\* Colours of the colour input and sizes of the font-size select.
Colors == {"#FF0000", "#0000FF"}
FontSizes == {16, 24}

\* onColorChange = setCurrentColor; the input is disabled with the select tool
onColorChange(color) ==
    /\ selectedTool # "select"
    /\ preGesture' = <<>>
    /\ currentColor' = color
    /\ UNCHANGED <<annotations, currentPage, selectedTool, currentFontSize,
                   compVars, envVars, pointerPos>>

\* onFontSizeChange = setCurrentFontSize; the select is shown with the text tool
onFontSizeChange(size) ==
    /\ selectedTool = "text"
    /\ preGesture' = <<>>
    /\ currentFontSize' = size
    /\ UNCHANGED <<annotations, currentPage, selectedTool, currentColor,
                   compVars, envVars, pointerPos>>

\* onClearAnnotations
onClearAnnotations ==
    /\ preGesture' = <<>>
    /\ annotations' = clearPage(annotations, currentPage)
    /\ UNCHANGED <<currentPage, selectedTool, currentColor, currentFontSize,
                   compVars, envVars, pointerPos>>

\* ------------------------------------------------------------- App: zoom
AutoScale == <<>>
\* MIN_SCALE = 0.1 and MAX_SCALE = 5.0 (the same literals in the zoom handlers)
MIN_SCALE == Rat(1, 10)
MAX_SCALE == Rat(5, 1)
\* The zoom factor 1.25
ZoomFactor == Rat(5, 4)

\* A zoom-in step without the upper limit.
zoomInUnlimited(prev, actual) ==
    IF prev # AutoScale THEN RMul(prev, ZoomFactor) ELSE RMul(actual, ZoomFactor)

\* handleZoomIn's updater
zoomInScale(prev, actual) ==
    IF prev # AutoScale THEN RMin(MAX_SCALE, RMul(prev, ZoomFactor))
    ELSE RMin(MAX_SCALE, RMul(actual, ZoomFactor))

\* handleZoomOut's updater
zoomOutScale(prev, actual) ==
    IF prev # AutoScale THEN RMax(MIN_SCALE, RDiv(prev, ZoomFactor))
    ELSE RMax(MIN_SCALE, RDiv(actual, ZoomFactor))

\* The scale a zoom step starts from.
EffectiveScale == IF targetScale # AutoScale THEN targetScale ELSE actualRenderScale

\* handleZoomIn
handleZoomIn ==
    /\ targetScale' = zoomInScale(targetScale, actualRenderScale)
    /\ zoomInRun' = IF EffectiveScale = RInt(1) THEN 1
                    ELSE IF zoomInRun \in 1..7 THEN zoomInRun + 1 ELSE 0
    /\ UNCHANGED <<actualRenderScale, displayArea>>
    /\ UNCHANGED <<appVars, compVars, envVars, histVars, exportVars>>

\* handleZoomOut
handleZoomOut ==
    /\ targetScale' = zoomOutScale(targetScale, actualRenderScale)
    /\ zoomInRun' = 0
    /\ UNCHANGED <<actualRenderScale, displayArea>>
    /\ UNCHANGED <<appVars, compVars, envVars, histVars, exportVars>>

\* handleZoomFit
handleZoomFit ==
    /\ targetScale' = AutoScale
    /\ zoomInRun' = 0
    /\ UNCHANGED <<actualRenderScale, displayArea>>
    /\ UNCHANGED <<appVars, compVars, envVars, histVars, exportVars>>

\* ------------------------------------- PdfCanvasDisplay: the render effect
\* The size of a page at scale 1 (page.getViewport({scale: 1}); the same
\* numbers are the page's size in points in the export).
PageSize(page) ==
    IF page = 1 THEN [width |-> 612, height |-> 792]
    ELSE [width |-> 792, height |-> 612]

\* Container boxes with window.innerWidth: the first page fits at scale 1,
\* at 1/2, only above MAX_SCALE, only below MIN_SCALE.
DisplayAreas ==
    {[width |-> 636, height |-> 856, innerWidth |-> 1024],
     [width |-> 314, height |-> 500, innerWidth |-> 500],
     [width |-> 4024, height |-> 5064, innerWidth |-> 4024],
     [width |-> 48, height |-> 100, innerWidth |-> 700]}

FewDisplayAreas ==
    {[width |-> 636, height |-> 856, innerWidth |-> 1024],
     [width |-> 314, height |-> 500, innerWidth |-> 500]}

\* parentPadding: p-1, p-2 or p-3 of the canvas's parent, 4px, two sides
parentPadding(area) ==
    (IF area.innerWidth < 640 THEN 1
     ELSE IF area.innerWidth < 768 THEN 2 ELSE 3) * 4 * 2

availableWidth(area) == Max(1, area.width - parentPadding(area))

\* 40 is the height of the pagination controls
availableHeight(area) == Max(1, area.height - parentPadding(area) - 40)

\* scaleForAutoFit with the available height divided by the page's width.
scaleForAutoFitByWidth(page, area) ==
    LET viewportDefault == PageSize(page)
        fit == IF viewportDefault.width > 0 /\ viewportDefault.height > 0
               THEN RMin(Rat(availableWidth(area), viewportDefault.width),
                         Rat(availableHeight(area), viewportDefault.width))
               ELSE RInt(1)
    IN  RMax(MIN_SCALE, fit)

\* scaleForAutoFit
scaleForAutoFit(page, area) ==
    LET viewportDefault == PageSize(page)
        fit == IF viewportDefault.width > 0 /\ viewportDefault.height > 0
               THEN RMin(Rat(availableWidth(area), viewportDefault.width),
                         Rat(availableHeight(area), viewportDefault.height))
               ELSE RInt(1)
    IN  RMax(MIN_SCALE, fit)

\* finalScale
finalScale(target, page, area) ==
    LET wanted == IF target # AutoScale THEN target ELSE scaleForAutoFit(page, area)
    IN  RMax(MIN_SCALE, RMin(MAX_SCALE, wanted))

BlankCanvas(page, scale) ==
    [page |-> page, scale |-> scale, pixels |-> FALSE, overlay |-> <<>>,
     overlayBy |-> 0]

\* The whole collection passed as the annotations prop.
annotationsUnfiltered(all, page) == all

\* The annotations prop: annotations.filter(a => a.page === currentPage)
annotationsProp(all, page) ==
    LET OnPage(a) == a.page = page IN SelectSeq(all, OnPage)

\* The cleanup without its call of cancel().
cancelNothing(run, ref) == run

\* RenderTask.cancel(): the promise of a running task is rejected; a task
\* whose promise is already settled stays as it is.
cancelTask(run, ref) ==
    IF ref = <<run.gen>> /\ run.task = "running"
    THEN [run EXCEPT !.task = "cancelled"]
    ELSE run

\* The effect's cleanup followed by the next run of the effect up to its
\* first await, with the props of the new render.
RerunEffect ==
    /\ effectGen' = effectGen + 1
    /\ effects' =
         {[cancelTask(run, currentRenderTaskRef) EXCEPT
              !.isActive = IF run.gen = effectGen THEN FALSE ELSE @] :
            run \in effects}
         \cup {[gen |-> effectGen + 1, isActive |-> TRUE, pc |-> "getPage",
                task |-> "none", page |-> currentPage',
                targetScale |-> targetScale',
                annotations |-> annotationsProp(annotations', currentPage'),
                scale |-> RInt(1)]}
    /\ currentRenderTaskRef' = <<>>
    /\ pendingCommit' = FALSE
    /\ UNCHANGED <<canvas, scaleReportedBy, renderErrors>>

\* React re-renders only when a state update changes the state.
Rerender(changed) == IF changed THEN RerunEffect ELSE UNCHANGED renderVars

\* The ResizeObserver's callback: setViewportRevision
handleResize(area) ==
    /\ area # displayArea
    /\ displayArea' = area
    /\ UNCHANGED <<targetScale, actualRenderScale, zoomInRun>>
    /\ UNCHANGED <<appVars, compVars, envVars, histVars, exportVars>>
    /\ RerunEffect

\* App re-renders after setActualRenderScale changed the state: the
\* annotations prop is a new array, so the effect runs again.
commitScaleChange ==
    /\ pendingCommit
    /\ UNCHANGED <<appVars, compVars, envVars, histVars, viewVars, exportVars>>
    /\ RerunEffect

\* The test after await getPage dropped: a stale run goes on.
activeAlways(run) == TRUE

\* if (!isActive) return, after await getPage
activeAfterGetPage(run) == run.isActive

\* if (isActive) onActualScaleChange(finalScale)
activeAtReport(run) == run.isActive

\* The test after await promise with nothing but the run's own flag dropped:
\* the overlay is painted whenever the promise resolves.
currentAlways(run, ref) == TRUE

\* if (!isActive || currentRenderTaskRef.current !== newRenderTaskInternal) return
currentAfterRender(run, ref) == run.isActive /\ ref = <<run.gen>>

\* finally: the ref is cleared by the run it belongs to
refAfterRun(run, ref) == IF run.isActive /\ ref = <<run.gen>> THEN <<>> ELSE ref

\* getPage resolves: the run returns if it is stale; otherwise it computes
\* the scale, reports it, sizes the canvas and starts the RenderTask.
getPageResolved(run) ==
    /\ run \in effects /\ run.pc = "getPage"
    /\ UNCHANGED <<appVars, compVars, envVars, histVars, exportVars,
                   targetScale, displayArea, zoomInRun, effectGen,
                   renderErrors>>
    /\ IF ~activeAfterGetPage(run)
       THEN /\ effects' = effects \ {run}
            /\ UNCHANGED <<actualRenderScale, currentRenderTaskRef, canvas,
                           pendingCommit, scaleReportedBy>>
       ELSE \E scale \in {finalScale(run.targetScale, run.page, displayArea)} :
                /\ IF activeAtReport(run)
                   THEN /\ actualRenderScale' = scale
                        /\ scaleReportedBy' = run.gen
                        /\ pendingCommit' =
                             (pendingCommit \/ scale # actualRenderScale)
                   ELSE UNCHANGED <<actualRenderScale, scaleReportedBy,
                                    pendingCommit>>
                /\ canvas' = BlankCanvas(run.page, scale)
                /\ effects' = (effects \ {run}) \cup
                     {[run EXCEPT !.pc = "render", !.task = "running",
                                  !.scale = scale]}
                /\ currentRenderTaskRef' = <<run.gen>>

\* The RenderTask paints the page and resolves its promise.
renderFinished(run) ==
    /\ run \in effects /\ run.pc = "render" /\ run.task = "running"
    /\ effects' = (effects \ {run}) \cup {[run EXCEPT !.task = "finished"]}
    /\ canvas' = [canvas EXCEPT !.pixels = TRUE]
    /\ UNCHANGED <<appVars, compVars, envVars, histVars, viewVars, exportVars,
                   currentRenderTaskRef, effectGen, pendingCommit,
                   scaleReportedBy, renderErrors>>

\* The run continues after await promise: drawAnnotations unless it is
\* stale, then finally.
renderResolved(run) ==
    /\ run \in effects /\ run.pc = "render" /\ run.task = "finished"
    /\ effects' = effects \ {run}
    /\ canvas' = IF currentAfterRender(run, currentRenderTaskRef)
                 THEN [canvas EXCEPT !.overlay = run.annotations,
                                     !.overlayBy = run.gen]
                 ELSE canvas
    /\ currentRenderTaskRef' = refAfterRun(run, currentRenderTaskRef)
    /\ UNCHANGED <<appVars, compVars, envVars, histVars, viewVars, exportVars,
                   effectGen, pendingCommit, scaleReportedBy, renderErrors>>

\* The catch with its test dropped: every error is reported.
reportsAlways(run, name) == TRUE

\* catch: if (error.name !== 'RenderingCancelledException' && isActive)
reportsError(run, name) == name # "RenderingCancelledException" /\ run.isActive

\* catch: console.error for the errors it reports
caught(run, name) ==
    renderErrors' = IF reportsError(run, name)
                    THEN renderErrors \cup {run.gen} ELSE renderErrors

\* The promise of a cancelled RenderTask rejects with
\* RenderingCancelledException: catch reports nothing, then finally.
renderCancelled(run) ==
    /\ run \in effects /\ run.pc = "render" /\ run.task = "cancelled"
    /\ effects' = effects \ {run}
    /\ caught(run, "RenderingCancelledException")
    /\ currentRenderTaskRef' = refAfterRun(run, currentRenderTaskRef)
    /\ UNCHANGED <<appVars, compVars, envVars, histVars, viewVars, exportVars,
                   canvas, effectGen, pendingCommit, scaleReportedBy>>

\* getPage rejects: catch, then finally, where newRenderTaskInternal is
\* still null and the ref is set to null only if it is null.
getPageRejected(run) ==
    /\ run \in effects /\ run.pc = "getPage"
    /\ effects' = effects \ {run}
    /\ caught(run, "Error")
    /\ UNCHANGED <<appVars, compVars, envVars, histVars, viewVars, exportVars,
                   currentRenderTaskRef, canvas, effectGen, pendingCommit,
                   scaleReportedBy>>

\* The promise of a running RenderTask rejects with an error other than the
\* cancellation: catch, then finally.
renderFailed(run) ==
    /\ run \in effects /\ run.pc = "render" /\ run.task = "running"
    /\ effects' = effects \ {run}
    /\ caught(run, "Error")
    /\ currentRenderTaskRef' = refAfterRun(run, currentRenderTaskRef)
    /\ UNCHANGED <<appVars, compVars, envVars, histVars, viewVars, exportVars,
                   canvas, effectGen, pendingCommit, scaleReportedBy>>

\* ------------------------------------------------------- App: the export
\* BASELINE ratio 0.85 and the border width 2 with its minimum 0.5
BaselineRatio == Rat(17, 20)
borderWidth(scale) == RMax(Rat(1, 2), RDiv(RInt(2), scale))

\* page.drawRectangle's y with the height left out: the top edge.
rectangleTopY(a, scale, pageHeight) ==
    RSub(RInt(pageHeight), RDiv(RInt(a.y), scale))

\* y: pageHeight - (annotation.y / scale) - (annotation.height / scale)
rectangleY(a, scale, pageHeight) ==
    RSub(RSub(RInt(pageHeight), RDiv(RInt(a.y), scale)),
         RDiv(RInt(a.height), scale))

\* The centre's y divided by the scale, without the change to the y-up axis.
ellipseYUnflipped(a, scale, pageHeight) ==
    RDiv(RAdd(RInt(a.y), a.radius), scale)

\* y: pageHeight - ((annotation.y + annotation.radius) / scale)
ellipseY(a, scale, pageHeight) ==
    RSub(RInt(pageHeight), RDiv(RAdd(RInt(a.y), a.radius), scale))

\* What handleSave draws for one annotation: at most one drawing call.
drawAnnotation(a, scale, fontSize) ==
    LET pageHeight == PageSize(a.page).height
    IN  IF ~(a.page > 0 /\ a.page <= NumPages) THEN <<>>
        ELSE IF a.type = "rect" /\ a.width # 0 /\ a.height # 0
        THEN <<[op |-> "drawRectangle", of |-> a.id, page |-> a.page,
                x |-> RDiv(RInt(a.x), scale),
                y |-> rectangleY(a, scale, pageHeight),
                width |-> RDiv(RInt(a.width), scale),
                height |-> RDiv(RInt(a.height), scale),
                borderWidth |-> borderWidth(scale)]>>
        ELSE IF a.type = "circle" /\ a.radius # RInt(0)
                /\ a.width # 0 /\ a.height # 0
        THEN <<[op |-> "drawEllipse", of |-> a.id, page |-> a.page,
                x |-> RDiv(RAdd(RInt(a.x), a.radius), scale),
                y |-> ellipseY(a, scale, pageHeight),
                xScale |-> RDiv(a.radius, scale),
                yScale |-> RDiv(a.radius, scale),
                borderWidth |-> borderWidth(scale)]>>
        ELSE IF a.type = "text" /\ a.text # <<>>
        THEN LET fontSizeInPdfPoints ==
                     RDiv(RInt(IF a.fontSize # 0 THEN a.fontSize ELSE fontSize),
                          scale)
             IN  <<[op |-> "drawText", of |-> a.id, page |-> a.page,
                    text |-> a.text,
                    x |-> RDiv(RInt(a.x), scale),
                    y |-> RSub(RSub(RInt(pageHeight), RDiv(RInt(a.y), scale)),
                               RMul(fontSizeInPdfPoints, BaselineRatio)),
                    size |-> fontSizeInPdfPoints]>>
        ELSE <<>>

\* The loop of handleSave over the collection, in collection order.
RECURSIVE drawAll(_, _, _)
drawAll(all, scale, fontSize) ==
    IF all = <<>> THEN <<>>
    ELSE drawAnnotation(Head(all), scale, fontSize)
           \o drawAll(Tail(all), scale, fontSize)

\* handleSave dividing by 1: the display-space geometry written as it is.
handleSaveUnscaled ==
    /\ drawOps' = drawAll(annotations, RInt(1), currentFontSize)
    /\ UNCHANGED <<appVars, compVars, envVars, histVars, viewVars, renderVars,
                   docVars, saveVars>>

\* handleSave, the document copy loaded and saved without failure: the
\* drawing calls made with scale = actualRenderScale.
handleSave ==
    /\ drawOps' = drawAll(annotations, actualRenderScale, currentFontSize)
    /\ UNCHANGED <<appVars, compVars, envVars, histVars, viewVars, renderVars,
                   docVars, saveVars>>

\* ------------------------------------------------------ App: the document
\* Files the user can pick: a PDF that loads, a PDF the renderer cannot
\* parse, a PDF the FileReader cannot read, and a file of another type.
PdfFile == [type |-> "application/pdf", readable |-> TRUE, parsable |-> TRUE]
Files ==
    {PdfFile,
     [type |-> "application/pdf", readable |-> TRUE, parsable |-> FALSE],
     [type |-> "application/pdf", readable |-> FALSE, parsable |-> FALSE],
     [type |-> "image/png", readable |-> TRUE, parsable |-> FALSE]}

\* <FileUploader> rendered whether or not an error is displayed.
FileUploaderShownDespiteError == pdfDocProxy = <<>> /\ ~isLoading

\* <FileUploader> is rendered: !pdfDocProxy && !isLoading && !error
FileUploaderShown == pdfDocProxy = <<>> /\ ~isLoading /\ error = <<>>

\* The toolbar's disabled prop is false: !(!pdfDocProxy || isLoading)
ToolbarEnabled == pdfDocProxy # <<>> /\ ~isLoading

\* Every file is taken for a PDF.
acceptsAnyFile(file) == TRUE

\* handleFileSelected's test of file.type
acceptsFile(file) == file.type = "application/pdf"

\* handleFileSelected followed by the load effect when pdfFile has changed:
\* with no file the effect resets the session, with a file it starts the
\* FileReader.
handleFileSelected(file) ==
    /\ FileUploaderShown
    /\ IF ~acceptsFile(file)
       THEN /\ error' = <<"Invalid file type. Please select a PDF file.">>
            /\ pdfFile' = <<>>
            /\ IF pdfFile # <<>>
               THEN /\ pdfDocProxy' = <<>>
                    /\ numPages' = 0
                    /\ currentPage' = 1
                    /\ annotations' = <<>>
                    /\ targetScale' = AutoScale
                    /\ actualRenderScale' = RInt(1)
                    /\ zoomInRun' = 0
               ELSE UNCHANGED <<pdfDocProxy, numPages, currentPage, annotations,
                                targetScale, actualRenderScale, zoomInRun>>
            /\ UNCHANGED <<isLoading, loadPc>>
       ELSE /\ pdfFile' = <<file>>
            /\ isLoading' = TRUE
            /\ error' = <<>>
            /\ loadPc' = "reading"
            /\ UNCHANGED <<pdfDocProxy, numPages, currentPage, annotations,
                           targetScale, actualRenderScale, zoomInRun>>
    /\ UNCHANGED <<selectedTool, currentColor, currentFontSize, compVars,
                   envVars, histVars, displayArea, renderVars, drawOps,
                   saveVars>>

\* reader.onload (the bytes are there, getDocument starts) or reader.onerror
readSettled ==
    /\ loadPc = "reading"
    /\ IF pdfFile[1].readable
       THEN loadPc' = "parsing" /\ UNCHANGED <<error, isLoading>>
       ELSE /\ error' = <<"Failed to read file.">>
            /\ isLoading' = FALSE
            /\ loadPc' = "idle"
    /\ UNCHANGED <<appVars, compVars, envVars, histVars, viewVars, renderVars,
                   drawOps, saveVars, pdfFile, pdfDocProxy, numPages>>

\* The catch of the load without its setError.
loadErrorDropped(message) == <<>>

\* catch: setError(`Error loading PDF: ${err.message}`)
loadError(message) == <<message>>

\* The page count left as it was.
numPagesStale(pdf) == 0

\* setNumPages(pdf.numPages)
numPagesOf(pdf) == pdf.numPages

\* loadingTask.promise settles: try, catch and finally of reader.onload,
\* without what follows in <PdfCanvasDisplay>
parseSettledApp ==
    /\ loadPc = "parsing"
    /\ loadPc' = "idle"
    /\ isLoading' = FALSE
    /\ IF pdfFile[1].parsable
       THEN /\ pdfDocProxy' = <<[numPages |-> NumPages]>>
            /\ numPages' = numPagesOf(pdfDocProxy'[1])
            /\ currentPage' = 1
            /\ annotations' = <<>>
            /\ targetScale' = AutoScale
            /\ zoomInRun' = 0
            /\ UNCHANGED error
       ELSE /\ error' = loadError("Error loading PDF")
            /\ pdfDocProxy' = <<>>
            /\ numPages' = 0
            /\ UNCHANGED <<currentPage, annotations, targetScale, zoomInRun>>
    /\ UNCHANGED <<selectedTool, currentColor, currentFontSize, compVars,
                   envVars, histVars, actualRenderScale, displayArea,
                   drawOps, saveVars, pdfFile>>

\* The load settles with the render effect left out.
parseSettled == parseSettledApp /\ UNCHANGED renderVars

\* ------------------------------------------- App: the export, step by step
Logged(step, ok) == Append(saveLog, [step |-> step, ok |-> ok])

\* What no step of handleSave changes.
saveFrame ==
    UNCHANGED <<appVars, compVars, envVars, histVars, viewVars, renderVars,
                pdfFile, pdfDocProxy, numPages, loadPc, saveJob, saveCount>>

\* handleSave up to await pdfFile.arrayBuffer()
saveStart ==
    /\ ToolbarEnabled
    /\ savePc = "idle"
    /\ saveCount' = saveCount + 1
    /\ IF pdfFile = <<>> \/ pdfDocProxy = <<>>
       THEN /\ error' = <<"No PDF loaded to save.">>
            /\ UNCHANGED <<isLoading, savePc, saveJob, saveLog>>
       ELSE /\ isLoading' = TRUE
            /\ error' = <<>>
            /\ savePc' = "arrayBuffer"
            /\ saveJob' = <<[annotations |-> annotations,
                             scale |-> actualRenderScale,
                             fontSize |-> currentFontSize]>>
            /\ saveLog' = <<>>
    /\ UNCHANGED <<appVars, compVars, envVars, histVars, viewVars, renderVars,
                   pdfFile, pdfDocProxy, numPages, loadPc, customFontBytes,
                   drawOps, fontFetches, downloads>>

\* The catch of handleSave without the finally.
saveFailedStaysBusy ==
    /\ error' = <<"Failed to save PDF">>
    /\ isLoading' = isLoading
    /\ savePc' = "idle"

\* catch and finally of handleSave
saveFailed ==
    /\ error' = <<"Failed to save PDF">>
    /\ isLoading' = FALSE
    /\ savePc' = "idle"

\* await pdfFile.arrayBuffer() settles
arrayBufferSettled(ok) ==
    /\ savePc = "arrayBuffer"
    /\ saveLog' = Logged("arrayBuffer", ok)
    /\ IF ok THEN savePc' = "load" /\ UNCHANGED <<error, isLoading>>
       ELSE saveFailed
    /\ UNCHANGED <<customFontBytes, drawOps, fontFetches, downloads>>
    /\ saveFrame

\* The font is fetched by every export.
alwaysFetch(bytes) == TRUE

\* getCustomFont: if (!customFontBytes)
needsFontFetch(bytes) == bytes = <<>>

\* await PDFDocument.load settles; on success getCustomFont runs up to its
\* first await: fetch(fontUrl), or embedFont(customFontBytes)
docLoadSettled(ok) ==
    /\ savePc = "load"
    /\ saveLog' = Logged("load", ok)
    /\ IF ok
       THEN /\ drawOps' = <<>>
            /\ IF needsFontFetch(customFontBytes)
               THEN savePc' = "fetch" /\ fontFetches' = fontFetches + 1
               ELSE savePc' = "embed" /\ UNCHANGED fontFetches
            /\ UNCHANGED <<error, isLoading>>
       ELSE saveFailed /\ UNCHANGED <<drawOps, fontFetches>>
    /\ UNCHANGED <<customFontBytes, downloads>>
    /\ saveFrame

\* The failure of the font fetch thrown on to handleSave.
fontFailureThrown == "failed"

\* getCustomFont's catch: return pdfDoc.embedFont(StandardFonts.Helvetica)
fontFailureCaught == "embedFallback"

\* What a failed step of getCustomFont's try block leads to.
fontFetchFailed ==
    IF fontFailureCaught = "embedFallback"
    THEN savePc' = "embedFallback" /\ UNCHANGED <<error, isLoading>>
    ELSE saveFailed

\* await fetch(fontUrl) settles: ok is a response with response.ok
fetchSettled(ok) ==
    /\ savePc = "fetch"
    /\ saveLog' = Logged("fetch", ok)
    /\ IF ok THEN savePc' = "fontBytes" /\ UNCHANGED <<error, isLoading>>
       ELSE fontFetchFailed
    /\ UNCHANGED <<customFontBytes, drawOps, fontFetches, downloads>>
    /\ saveFrame

\* await response.arrayBuffer() settles
fontBytesSettled(ok) ==
    /\ savePc = "fontBytes"
    /\ saveLog' = Logged("fetch", ok)
    /\ IF ok
       THEN /\ customFontBytes' = <<"MPLUSRounded1c-Regular.ttf">>
            /\ savePc' = "embed"
            /\ UNCHANGED <<error, isLoading>>
       ELSE fontFetchFailed /\ UNCHANGED customFontBytes
    /\ UNCHANGED <<drawOps, fontFetches, downloads>>
    /\ saveFrame

\* await getCustomFont settles (the promise of embedFont); on success the
\* draw loop runs (a drawing call may throw) and pdfDoc.save() starts
embedSettled(ok, drawOk) ==
    /\ savePc \in {"embed", "embedFallback"}
    /\ LET ops == drawAll(saveJob[1].annotations, saveJob[1].scale,
                          saveJob[1].fontSize)
       IN  /\ ~drawOk => ok /\ ops # <<>>
           /\ IF ~ok
              THEN /\ saveLog' = Logged("embed", FALSE)
                   /\ saveFailed /\ UNCHANGED drawOps
              ELSE IF ~drawOk
              THEN /\ saveLog' = Append(Logged("embed", TRUE),
                                        [step |-> "draw", ok |-> FALSE])
                   /\ saveFailed /\ UNCHANGED drawOps
              ELSE /\ saveLog' = Append(Logged("embed", TRUE),
                                        [step |-> "draw", ok |-> TRUE])
                   /\ drawOps' = ops
                   /\ savePc' = "serialize"
                   /\ UNCHANGED <<error, isLoading>>
    /\ UNCHANGED <<customFontBytes, fontFetches, downloads>>
    /\ saveFrame

\* The download is triggered whatever pdfDoc.save() did.
savedAnyway(ok) == TRUE

\* await pdfDoc.save() resolved
saved(ok) == ok

\* await pdfDoc.save() settles; on success the link is clicked
serializeSettled(ok) ==
    /\ savePc = "serialize"
    /\ IF saved(ok)
       THEN /\ saveLog' = Append(Logged("serialize", ok),
                                 [step |-> "download", ok |-> TRUE])
            /\ downloads' = downloads + 1
            /\ error' = <<>>
            /\ isLoading' = FALSE
            /\ savePc' = "idle"
       ELSE /\ saveLog' = Logged("serialize", ok)
            /\ saveFailed /\ UNCHANGED downloads
    /\ UNCHANGED <<customFontBytes, drawOps, fontFetches>>
    /\ saveFrame

\* ------------------------------------------------------------ specifications
\* The first run of the render effect, started when the document is shown.
FirstRun(all, page) ==
    [gen |-> 1, isActive |-> TRUE, pc |-> "getPage", task |-> "none",
     page |-> page, targetScale |-> AutoScale,
     annotations |-> annotationsProp(all, page), scale |-> RInt(1)]

\* The session with the collection all, a document of NumPages pages shown
\* in the container area at scale.
Session(all, area, scale) ==
    /\ annotations = all
    /\ currentPage = 1
    /\ selectedTool = "select"
    /\ currentColor = "#FF0000"
    /\ currentFontSize = 16
    /\ targetScale = AutoScale
    /\ actualRenderScale = scale
    /\ isDrawing = FALSE
    /\ startPos = <<>>
    /\ currentDrawing = <<>>
    /\ textInput = HiddenTextInput
    /\ effects = {FirstRun(all, 1)}
    /\ currentRenderTaskRef = <<>>
    /\ canvas = BlankCanvas(1, RInt(1))
    /\ drawOps = <<>>
    /\ displayArea = area
    /\ effectGen = 1
    /\ pendingCommit = FALSE
    /\ buttonDown = FALSE
    /\ nextId = Len(all) + 1
    /\ pointerPos = <<>>
    /\ preGesture = <<>>
    /\ scaleReportedBy = 0
    /\ renderErrors = {}
    /\ zoomInRun = 0
    /\ pdfFile = <<PdfFile>>
    /\ pdfDocProxy = <<[numPages |-> NumPages]>>
    /\ numPages = NumPages
    /\ error = <<>>
    /\ isLoading = FALSE
    /\ loadPc = "idle"
    /\ customFontBytes = <<>>
    /\ savePc = "idle"
    /\ saveJob = <<>>
    /\ saveLog = <<>>
    /\ saveCount = 0
    /\ fontFetches = 0
    /\ downloads = 0

DefaultArea == [width |-> 636, height |-> 856, innerWidth |-> 1024]

\* The session right after a document of NumPages pages has been loaded.
Init == Session(<<>>, DefaultArea, RInt(1))

\* Spec: the drawing handlers interleaved with the toolbar and the page
\* buttons, at most MaxIds annotations created.
Next ==
    \/ \E p \in FewPositions :
          nextId <= MaxIds /\ handleMouseDown(p) /\ UNCHANGED restVars
    \/ \E p \in FewPositions : handleMouseMove(p) /\ UNCHANGED restVars
    \/ handleMouseUp /\ UNCHANGED restVars
    \/ handleMouseLeave /\ UNCHANGED restVars
    \/ goToPrevPage /\ UNCHANGED restVars
    \/ goToNextPage /\ UNCHANGED restVars
    \/ \E t \in FewTools : onToolChange(t) /\ UNCHANGED restVars
    \/ onClearAnnotations /\ UNCHANGED restVars

Spec == Init /\ [][Next]_vars

\* SpecGesture: the shapes a gesture produces, over all of Positions.
NextGesture ==
    \/ \E p \in Anchors :
          nextId <= MaxGestureIds /\ handleMouseDown(p) /\ UNCHANGED restVars
    \/ \E p \in Positions : handleMouseMove(p) /\ UNCHANGED restVars
    \/ handleMouseUp /\ UNCHANGED restVars
    \/ handleMouseLeave /\ UNCHANGED restVars
    \/ \E t \in Tools : onToolChange(t) /\ UNCHANGED restVars

SpecGesture == Init /\ [][NextGesture]_vars

\* A committed annotation of the given kind, as the drawing handlers and
\* handleTextSubmit leave it in the collection.
Committed(id, page, type, x, y, width, height) ==
    [id |-> id, page |-> page, type |-> type, x |-> x, y |-> y,
     width |-> width, height |-> height,
     radius |-> IF type = "circle" THEN Rat(width, 2) ELSE RInt(0),
     text |-> IF type = "text" THEN <<"a">> ELSE <<>>,
     color |-> "#FF0000", fontSize |-> 16, isDrawing |-> FALSE]

\* SpecRender: the render effect under page changes, zoom, resizes and
\* clear-page, in a session with one rectangle on page 1 and one text on
\* page 2.
InitRender ==
    Session(<<Committed(1, 1, "rect", 50, 50, 30, 10),
              Committed(2, 2, "text", 80, 60, 0, 0)>>,
            DefaultArea, RInt(1))

\* The effect has run fewer than maxRuns times and fewer than maxInFlight
\* of its runs are still waiting for a promise.
MayRerun(maxRuns, maxInFlight) ==
    effectGen < maxRuns /\ Cardinality(effects) < maxInFlight

RenderSteps ==
    \/ \E run \in effects : getPageResolved(run)
    \/ \E run \in effects : renderFinished(run)
    \/ \E run \in effects : renderResolved(run)
    \/ \E run \in effects : renderCancelled(run)

NextRender ==
    \/ /\ MayRerun(MaxEffectRuns, MaxEffectRuns)
       /\ goToPrevPage /\ UNCHANGED <<viewVars, exportVars>>
       /\ Rerender(currentPage' # currentPage)
    \/ /\ MayRerun(MaxEffectRuns, MaxEffectRuns)
       /\ goToNextPage /\ UNCHANGED <<viewVars, exportVars>>
       /\ Rerender(currentPage' # currentPage)
    \/ /\ MayRerun(MaxEffectRuns, MaxEffectRuns)
       /\ onClearAnnotations /\ UNCHANGED <<viewVars, exportVars>>
       /\ RerunEffect
    \/ /\ MayRerun(MaxEffectRuns, MaxEffectRuns)
       /\ handleZoomIn /\ Rerender(targetScale' # targetScale)
    \/ /\ MayRerun(MaxEffectRuns, MaxEffectRuns)
       /\ handleZoomFit /\ Rerender(targetScale' # targetScale)
    \/ \E area \in FewDisplayAreas :
          MayRerun(MaxEffectRuns, MaxEffectRuns) /\ handleResize(area)
    \/ MayRerun(MaxEffectRuns, MaxEffectRuns) /\ commitScaleChange
    \/ RenderSteps

SpecRender == InitRender /\ [][NextRender]_vars

\* SpecRenderLive: SpecRender with the promises of the renderer settling
\* (getPage resolves, a RenderTask finishes, the continuations after each
\* await run) and React committing the re-render after a scale report.
RenderFairness ==
    /\ WF_vars(\E run \in effects : getPageResolved(run))
    /\ WF_vars(\E run \in effects : renderFinished(run))
    /\ WF_vars(\E run \in effects : renderResolved(run))
    /\ WF_vars(\E run \in effects : renderCancelled(run))
    /\ WF_vars(MayRerun(MaxEffectRuns, MaxEffectRuns) /\ commitScaleChange)

SpecRenderLive == InitRender /\ [][NextRender]_vars /\ RenderFairness

\* SpecRenderFail: SpecRenderLive with renders that fail: getPage or the
\* RenderTask may reject with an unexpected error.
NextRenderFail ==
    \/ NextRender
    \/ \E run \in effects : getPageRejected(run)
    \/ \E run \in effects : renderFailed(run)

SpecRenderFail == InitRender /\ [][NextRenderFail]_vars /\ RenderFairness

\* SpecAutoFit: the scale mode stays auto while the container is resized
\* (boxes that limit the scale by their width, by their height, and beyond
\* MIN_SCALE and MAX_SCALE) and the page changes between the portrait and
\* the landscape page.
AutoFitAreas ==
    DisplayAreas \cup
      {[width |-> 1248, height |-> 460, innerWidth |-> 1248],
       [width |-> 816, height |-> 676, innerWidth |-> 816]}

NextAutoFit ==
    \/ \E area \in AutoFitAreas :
          MayRerun(MaxEffectRuns, MaxInFlight) /\ handleResize(area)
    \/ /\ MayRerun(MaxEffectRuns, MaxInFlight)
       /\ goToNextPage /\ UNCHANGED <<viewVars, exportVars>>
       /\ Rerender(currentPage' # currentPage)
    \/ /\ MayRerun(MaxEffectRuns, MaxInFlight)
       /\ goToPrevPage /\ UNCHANGED <<viewVars, exportVars>>
       /\ Rerender(currentPage' # currentPage)
    \/ MayRerun(MaxEffectRuns, MaxInFlight) /\ commitScaleChange
    \/ RenderSteps

SpecAutoFit == Init /\ [][NextAutoFit]_vars

\* SpecZoomExport: a rectangle, a circle and a text drawn at scale 1, then
\* the zoom buttons interleaved with the render effect and with exports.
InitZoomExport ==
    Session(<<Committed(1, 1, "rect", 50, 50, 30, 10),
              Committed(2, 1, "circle", 20, 30, 60, 60),
              Committed(3, 2, "text", 80, 60, 0, 0)>>,
            DefaultArea, RInt(1))

NextZoomExport ==
    \/ /\ MayRerun(MaxEffectRuns, MaxInFlight)
       /\ handleZoomIn /\ Rerender(targetScale' # targetScale)
    \/ /\ MayRerun(MaxEffectRuns, MaxInFlight)
       /\ handleZoomOut /\ Rerender(targetScale' # targetScale)
    \/ /\ MayRerun(MaxEffectRuns, MaxInFlight)
       /\ handleZoomFit /\ Rerender(targetScale' # targetScale)
    \/ MayRerun(MaxEffectRuns, MaxInFlight) /\ commitScaleChange
    \/ RenderSteps
    \/ handleSave

SpecZoomExport == InitZoomExport /\ [][NextZoomExport]_vars

\* SpecZoom: the zoom buttons and resizes of the container interleaved with
\* the render effect, on an empty collection.
NextZoom ==
    \/ /\ MayRerun(MaxZoomRuns, MaxInFlight)
       /\ handleZoomIn /\ Rerender(targetScale' # targetScale)
    \/ /\ MayRerun(MaxZoomRuns, MaxInFlight)
       /\ handleZoomOut /\ Rerender(targetScale' # targetScale)
    \/ /\ MayRerun(MaxZoomRuns, MaxInFlight)
       /\ handleZoomFit /\ Rerender(targetScale' # targetScale)
    \/ \E area \in DisplayAreas :
          MayRerun(MaxZoomRuns, MaxInFlight) /\ handleResize(area)
    \/ MayRerun(MaxZoomRuns, MaxInFlight) /\ commitScaleChange
    \/ RenderSteps

SpecZoom == Init /\ [][NextZoom]_vars

\* SpecText: the text entry (click, typing, Enter or blur, Escape, a
\* pointerDown with a shape tool while the entry is open) interleaved with
\* the toolbar and the page buttons, at most MaxGestureIds annotations created.
TextTools == {"text", "rect"}
TypedTexts == {<<>>, <<" ">>, <<" ", "a">>}

NextText ==
    \/ \E p \in FewPositions : handleCanvasClick(p) /\ UNCHANGED restVars
    \/ \E t \in TypedTexts : handleTextChange(t) /\ UNCHANGED restVars
    \/ nextId <= MaxGestureIds /\ handleTextSubmit /\ UNCHANGED restVars
    \/ handleTextCancel /\ UNCHANGED restVars
    \/ \E p \in Anchors :
          /\ nextId <= MaxGestureIds /\ textInput.visible
          /\ handleMouseDown(p) /\ UNCHANGED restVars
    \/ handleMouseUp /\ UNCHANGED restVars
    \/ \E t \in TextTools : onToolChange(t) /\ UNCHANGED restVars
    \/ \E c \in Colors : onColorChange(c) /\ UNCHANGED restVars
    \/ \E size \in FontSizes : onFontSizeChange(size) /\ UNCHANGED restVars
    \/ goToPrevPage /\ UNCHANGED restVars
    \/ goToNextPage /\ UNCHANGED restVars

SpecText == Init /\ [][NextText]_vars

\* SpecExport: handleSave applied to a session with one annotation, at a
\* render scale a zoom step or an auto-fit produces.
ExportScales == {RInt(1), Rat(3, 2), Rat(1, 2), Rat(5, 4)}

ExportAnnotations ==
    {Committed(1, page, "rect", x, y, width, height) :
        page \in 1..NumPages, x \in {0, 150}, y \in {0, 300},
        width \in {0, 60}, height \in {0, 30}}
    \cup {Committed(1, page, "circle", x, y, side, side) :
        page \in 1..NumPages, x \in {0, 150}, y \in {0, 300}, side \in {0, 60}}
    \cup {Committed(1, page, "text", x, y, 0, 0) :
        page \in 1..NumPages, x \in {0, 150}, y \in {0, 300}}

InitExport ==
    \E a \in ExportAnnotations, scale \in ExportScales :
        Session(<<a>>, DefaultArea, scale)

NextExport == handleSave

SpecExport == InitExport /\ [][NextExport]_vars

\* SpecSession: from the start of the application: a file is selected and
\* loaded, text annotations are added, and the document is exported at most
\* MaxSaves times, each await of the export succeeding or failing.
InitSession ==
    /\ annotations = <<>>
    /\ currentPage = 1
    /\ selectedTool = "select"
    /\ currentColor = "#FF0000"
    /\ currentFontSize = 16
    /\ targetScale = AutoScale
    /\ actualRenderScale = RInt(1)
    /\ isDrawing = FALSE
    /\ startPos = <<>>
    /\ currentDrawing = <<>>
    /\ textInput = HiddenTextInput
    /\ effects = {}
    /\ currentRenderTaskRef = <<>>
    /\ canvas = BlankCanvas(1, RInt(1))
    /\ drawOps = <<>>
    /\ displayArea = DefaultArea
    /\ effectGen = 0
    /\ pendingCommit = FALSE
    /\ buttonDown = FALSE
    /\ nextId = 1
    /\ pointerPos = <<>>
    /\ preGesture = <<>>
    /\ scaleReportedBy = 0
    /\ renderErrors = {}
    /\ zoomInRun = 0
    /\ pdfFile = <<>>
    /\ pdfDocProxy = <<>>
    /\ numPages = 0
    /\ error = <<>>
    /\ isLoading = FALSE
    /\ loadPc = "idle"
    /\ customFontBytes = <<>>
    /\ savePc = "idle"
    /\ saveJob = <<>>
    /\ saveLog = <<>>
    /\ saveCount = 0
    /\ fontFetches = 0
    /\ downloads = 0

\* <PdfCanvasDisplay> is rendered and the loading overlay does not cover it.
CanvasReachable == pdfDocProxy # <<>> /\ ~isLoading

NextSession ==
    \/ \E file \in Files : handleFileSelected(file)
    \/ readSettled
    \/ parseSettled
    \/ ToolbarEnabled /\ onToolChange("text") /\ UNCHANGED restVars
    \/ CanvasReachable /\ handleCanvasClick(Pos(50, 50)) /\ UNCHANGED restVars
    \/ pdfDocProxy # <<>> /\ handleTextChange(<<"a">>) /\ UNCHANGED restVars
    \/ /\ pdfDocProxy # <<>> /\ nextId <= MaxGestureIds
       /\ handleTextSubmit /\ UNCHANGED restVars
    \/ saveCount < MaxSaves /\ saveStart
    \/ \E ok \in BOOLEAN : arrayBufferSettled(ok)
    \/ \E ok \in BOOLEAN : docLoadSettled(ok)
    \/ \E ok \in BOOLEAN : fetchSettled(ok)
    \/ \E ok \in BOOLEAN : fontBytesSettled(ok)
    \/ \E ok, drawOk \in BOOLEAN : embedSettled(ok, drawOk)
    \/ \E ok \in BOOLEAN : serializeSettled(ok)

SpecSession == InitSession /\ [][NextSession]_vars

\* SpecSessionLive: SpecSession with the FileReader firing load or error and
\* the promises handleSave and the load await settling.
SessionFairness ==
    /\ WF_vars(readSettled)
    /\ WF_vars(parseSettled)
    /\ WF_vars(\E ok \in BOOLEAN : arrayBufferSettled(ok))
    /\ WF_vars(\E ok \in BOOLEAN : docLoadSettled(ok))
    /\ WF_vars(\E ok \in BOOLEAN : fetchSettled(ok))
    /\ WF_vars(\E ok \in BOOLEAN : fontBytesSettled(ok))
    /\ WF_vars(\E ok, drawOk \in BOOLEAN : embedSettled(ok, drawOk))
    /\ WF_vars(\E ok \in BOOLEAN : serializeSettled(ok))

SpecSessionLive == InitSession /\ [][NextSession]_vars /\ SessionFairness

\* SpecAsync: the asynchronous operations together: a file is selected, read
\* and parsed, <PdfCanvasDisplay> mounts and the render effect runs, reruns
\* after a resize or a scale report, and the document is exported.
NextAsync ==
    \/ \E file \in Files : handleFileSelected(file)
    \/ readSettled
    \/ parseSettledApp /\ Rerender(pdfDocProxy' # pdfDocProxy)
    \/ \E area \in FewDisplayAreas :
          /\ pdfDocProxy # <<>>
          /\ MayRerun(MaxEffectRuns, MaxInFlight) /\ handleResize(area)
    \/ MayRerun(MaxEffectRuns, MaxInFlight) /\ commitScaleChange
    \/ RenderSteps
    \/ saveCount < MaxSaves /\ saveStart
    \/ \E ok \in BOOLEAN : arrayBufferSettled(ok)
    \/ \E ok \in BOOLEAN : docLoadSettled(ok)
    \/ \E ok \in BOOLEAN : fetchSettled(ok)
    \/ \E ok \in BOOLEAN : fontBytesSettled(ok)
    \/ \E ok, drawOk \in BOOLEAN : embedSettled(ok, drawOk)
    \/ \E ok \in BOOLEAN : serializeSettled(ok)

SpecAsync == InitSession /\ [][NextAsync]_vars

\* ------------------------------------------------------ gesture properties
\* A pointerUp (left button released over the canvas) of a gesture in progress.
PointerUpStep == buttonDown /\ ~buttonDown' /\ isDrawing /\ currentDrawing # <<>>

\* Only pointer events have followed the pointerDown of the gesture in progress.
Uninterrupted == isDrawing /\ preGesture # <<>>

HasId(s, id) == \E i \in DOMAIN s : s[i].id = id

\* C2: with the rect or circle tool, a pointerDown followed by a pointerUp at
\* the same coordinates removes the provisional annotation: no annotation
\* with its id stays, and the collection is again what it was at pointerDown.
ZeroDistanceDragRemoved ==
    [][(PointerUpStep /\ Uninterrupted /\ pointerPos = startPos)
        => /\ ~HasId(annotations', currentDrawing[1].id)
           /\ annotations' = preGesture[1]]_vars

\* A zero-distance gesture has ended over an earlier, committed annotation:
\* the second annotation created is gone and the first is what is left.
ZeroDistanceDragWitness ==
    /\ nextId = 3 /\ ~isDrawing /\ ~buttonDown
    /\ selectedTool \in {"rect", "circle"}
    /\ Len(annotations) = 1 /\ annotations[1].id = 1 /\ ~annotations[1].isDrawing

\* C3 as claimed: every uninterrupted rect or circle gesture whose last
\* pointer position differs from its anchor is committed at pointerUp.
EveryDraggedGestureCommitted ==
    [][(PointerUpStep /\ Uninterrupted /\ pointerPos # startPos)
        => \E i \in DOMAIN annotations' :
              /\ annotations'[i].id = currentDrawing[1].id
              /\ ~annotations'[i].isDrawing]_vars

\* C3 as amended: at pointerUp with the rect or circle tool the annotation of
\* the gesture is deleted exactly when it is a rectangle of zero width or zero
\* height or a circle of zero radius, and otherwise it is committed
\* (isDrawing = false, the geometry of the gesture) where it stood; for an
\* uninterrupted gesture that is: a rectangle is deleted when the last pointer
\* position shares its x or its y with the anchor, a circle when it is the anchor.
DegenerateDeletedElseCommitted ==
    [][(PointerUpStep /\ selectedTool \in {"rect", "circle"})
        => LET d == currentDrawing[1]
               flat == \/ d.type = "rect" /\ d.width * d.height = 0
                       \/ d.type = "circle" /\ d.radius[1] = 0
           IN  /\ flat => ~HasId(annotations', d.id)
               /\ ~flat =>
                    /\ Len(annotations') = Len(annotations)
                    /\ \A i \in DOMAIN annotations :
                          annotations'[i] =
                            IF annotations[i].id = d.id
                            THEN [d EXCEPT !.isDrawing = FALSE]
                            ELSE annotations[i]
               /\ Uninterrupted =>
                    LET a == startPos[1]
                        b == pointerPos[1]
                    IN  flat <=> IF selectedTool = "rect"
                                 THEN a.x = b.x \/ a.y = b.y
                                 ELSE a = b]_vars

\* A rectangle dragged along one axis was deleted at pointerUp, and a dragged
\* circle committed before it is kept.
DegenerateDeletedWitness ==
    /\ nextId = 3 /\ ~isDrawing /\ ~buttonDown /\ selectedTool = "rect"
    /\ Len(annotations) = 1
    /\ annotations[1].type = "circle" /\ annotations[1].width > 0
    /\ ~annotations[1].isDrawing

InCollection(id) == CHOOSE i \in DOMAIN annotations : annotations[i].id = id

\* C4: during an uninterrupted rectangle gesture with anchor a and pointer
\* position b the annotation has x = min(a.x, b.x), y = min(a.y, b.y),
\* width = |b.x - a.x| and height = |b.y - a.y|, in the component and in the
\* collection; pointerUp commits exactly that rectangle; and no annotation
\* ever has a negative width or height.
RectGestureShape ==
    (Uninterrupted /\ selectedTool = "rect") =>
        LET a == startPos[1]
            b == pointerPos[1]
            d == currentDrawing[1]
            c == annotations[InCollection(d.id)]
        IN  /\ d.x = Min(a.x, b.x) /\ d.y = Min(a.y, b.y)
            /\ d.width = Abs(b.x - a.x) /\ d.height = Abs(b.y - a.y)
            /\ <<c.x, c.y, c.width, c.height>> = <<d.x, d.y, d.width, d.height>>

RectangleIsMinAndAbs ==
    [][/\ RectGestureShape'
       /\ \A i \in DOMAIN annotations' :
             annotations'[i].width >= 0 /\ annotations'[i].height >= 0
       /\ (PointerUpStep /\ Uninterrupted /\ selectedTool = "rect"
             /\ pointerPos[1].x # startPos[1].x /\ pointerPos[1].y # startPos[1].y)
          => \E i \in DOMAIN annotations' :
                LET c == annotations'[i]
                    a == startPos[1]
                    b == pointerPos[1]
                IN  /\ c.id = currentDrawing[1].id /\ c.type = "rect"
                    /\ ~c.isDrawing
                    /\ c.x = Min(a.x, b.x) /\ c.y = Min(a.y, b.y)
                    /\ c.width = Abs(b.x - a.x) /\ c.height = Abs(b.y - a.y)]_vars

\* Two committed rectangles anchored at (50,50): one dragged up and to the
\* right to (80,30), one dragged down and to the left to (20,60).
RectangleQuadrantsWitness ==
    /\ ~isDrawing /\ Len(annotations) = 2
    /\ \A i \in 1..2 : annotations[i].type = "rect" /\ ~annotations[i].isDrawing
    /\ \E i \in 1..2 :
          LET c == annotations[i]
          IN  <<c.x, c.y, c.width, c.height>> = <<50, 30, 30, 20>>
    /\ \E i \in 1..2 :
          LET c == annotations[i]
          IN  <<c.x, c.y, c.width, c.height>> = <<20, 50, 30, 10>>

\* C5: during an uninterrupted circle gesture with anchor a and pointer
\* position b the annotation has width = height = max(|dx|, |dy|),
\* radius = width / 2 and top-left = the component-wise minimum of a and b,
\* in the component and in the collection; anchor (50,50) and pointer (80,60)
\* give side 30, radius 15 and top-left (50,50).
CircleIsSquareOfMaxSide ==
    (Uninterrupted /\ selectedTool = "circle") =>
        LET a == startPos[1]
            b == pointerPos[1]
            d == currentDrawing[1]
            c == annotations[InCollection(d.id)]
            side == Max(Abs(b.x - a.x), Abs(b.y - a.y))
        IN  /\ d.width = side /\ d.height = side
            /\ RMul(d.radius, RInt(2)) = RInt(d.width)
            /\ d.x = Min(a.x, b.x) /\ d.y = Min(a.y, b.y)
            /\ <<c.x, c.y, c.width, c.height, c.radius>>
                 = <<d.x, d.y, d.width, d.height, d.radius>>
            /\ (a = Pos(50, 50) /\ b = Pos(80, 60))
                 => <<d.x, d.y, d.width, d.height, d.radius>>
                      = <<50, 50, 30, 30, RInt(15)>>

\* The circle gesture from (50,50) has reached (80,60).
CircleExampleWitness ==
    /\ Uninterrupted /\ selectedTool = "circle"
    /\ startPos = <<Pos(50, 50)>> /\ pointerPos = <<Pos(80, 60)>>
    /\ currentDrawing[1].type = "circle" /\ currentDrawing[1].width = 30

\* --------------------------------------------------- collection properties
\* C8: clear-current-page removes exactly the annotations of the current
\* page: what is left are the annotations of the other pages, unchanged and
\* in the same relative order.
ClearRemovesOnlyCurrentPage ==
    [][onClearAnnotations
        => LET others == {i \in DOMAIN annotations :
                              annotations[i].page # currentPage}
               rank(i) == Cardinality({k \in others : k <= i})
           IN  /\ Len(annotations') = Cardinality(others)
               /\ \A i \in others : annotations'[rank(i)] = annotations[i]]_vars

\* Page 2 has just been cleared while two annotations of page 1 are kept,
\* after three annotations were created.
ClearPageWitness ==
    /\ nextId = 4 /\ currentPage = 2 /\ Len(annotations) = 2
    /\ annotations[1].page = 1 /\ annotations[2].page = 1
    /\ annotations[1].id < annotations[2].id

\* C9: previous/next leave the whole collection unchanged and move the
\* current page by exactly one inside [1, numPages]; previous on page 1 and
\* next on the last page change nothing.
PageSwitchKeepsAnnotations ==
    [][(goToPrevPage \/ goToNextPage)
        => /\ annotations' = annotations
           /\ currentPage' \in 1..NumPages
           /\ goToPrevPage =>
                currentPage' = IF currentPage = 1 THEN 1 ELSE currentPage - 1
           /\ goToNextPage =>
                currentPage' = IF currentPage = NumPages THEN NumPages
                               ELSE currentPage + 1]_vars

\* The last page is shown while page 1 holds an annotation.
PageSwitchWitness ==
    /\ currentPage = NumPages /\ annotations # <<>>
    /\ \E i \in DOMAIN annotations : annotations[i].page = 1

\* C10: at most one annotation of the collection has isDrawing = true.
AtMostOneProvisional ==
    Cardinality({i \in DOMAIN annotations : annotations[i].isDrawing}) <= 1

\* --------------------------------------------------- end-of-gesture properties
\* The pointer is released over the canvas, or leaves it, while the component
\* holds the annotation of a gesture.
GestureEndStep ==
    /\ currentDrawing # <<>>
    /\ \/ buttonDown /\ ~buttonDown'
       \/ pointerPos # <<>> /\ pointerPos' = <<>> /\ buttonDown' = buttonDown

NonZeroSize(a) ==
    IF a.type = "rect" THEN a.width # 0 /\ a.height # 0
    ELSE IF a.type = "circle" THEN a.radius # RInt(0)
    ELSE TRUE

\* C11: when a gesture ends (pointerUp or pointerLeave, whatever tool is
\* selected), the annotation it created is either gone from the collection
\* or in it with isDrawing = false and non-zero size.
NoProvisionalSurvivesGestureEnd ==
    [][GestureEndStep
        => \A i \in DOMAIN annotations' :
              annotations'[i].id = currentDrawing[1].id
                => ~annotations'[i].isDrawing /\ NonZeroSize(annotations'[i])]_vars

\* What handleMouseUp leaves in the collection in the current state.
CollectionAfterPointerUp ==
    IF \/ ~isDrawing \/ currentDrawing = <<>>
       \/ selectedTool = "text" \/ selectedTool = "select"
    THEN annotations
    ELSE LET final == [currentDrawing[1] EXCEPT !.isDrawing = FALSE]
         IN  IF isDegenerate(final)
             THEN removeAnnotationById(annotations, final.id)
             ELSE updateAnnotation(annotations, final)

\* C12: while a gesture is in progress, the pointer leaving the canvas has
\* the effect of a pointerUp: the collection is what pointerUp would leave
\* and the component is idle again (isDrawing false, no anchor, no drawing).
LeaveActsAsPointerUp ==
    [][(isDrawing /\ pointerPos # <<>> /\ pointerPos' = <<>>
          /\ buttonDown' = buttonDown)
        => /\ annotations' = CollectionAfterPointerUp
           /\ ~isDrawing' /\ startPos' = <<>> /\ currentDrawing' = <<>>]_vars

\* ------------------------------------------------------ text-entry properties
\* The open entry is committed: Enter or blur, or a pointerDown on the canvas
\* with a shape tool.
IsBlank(text) == \A i \in DOMAIN text : text[i] = " "

TextCommitStep ==
    /\ textInput.visible
    /\ \/ handleTextSubmit
       \/ /\ selectedTool \in {"rect", "circle"}
          /\ \E p \in Positions : handleMouseDown(p)

\* C13: committing an entry whose trimmed text is not empty appends exactly
\* one text annotation at the end of the collection, at the position of the
\* entry, on the current page, with the current colour and font size, the
\* text as typed and isDrawing not true, and closes the entry without
\* starting a gesture; the position of an open entry never changes.
TextCommitAppendsOneAnnotation ==
    [][/\ (TextCommitStep /\ ~IsBlank(textInput.text))
            => /\ Len(annotations') = Len(annotations) + 1
               /\ SubSeq(annotations', 1, Len(annotations)) = annotations
               /\ LET a == annotations'[Len(annotations')]
                  IN  /\ a.type = "text"
                      /\ a.x = textInput.x /\ a.y = textInput.y
                      /\ a.page = currentPage
                      /\ a.color = currentColor
                      /\ a.fontSize = currentFontSize
                      /\ a.text = textInput.text
                      /\ ~a.isDrawing
                      /\ ~HasId(annotations, a.id)
               /\ ~textInput'.visible
               /\ isDrawing' = isDrawing
       /\ (textInput.visible /\ textInput'.visible)
            => textInput'.x = textInput.x /\ textInput'.y = textInput.y]_vars

\* C13 witness: an entry opened at (80, 60) on page 2 was committed after the
\* colour and the font size had been changed.
TextCommitWitness ==
    /\ ~textInput.visible
    /\ \E i \in DOMAIN annotations :
          /\ annotations[i].type = "text"
          /\ annotations[i].x = 80 /\ annotations[i].y = 60
          /\ annotations[i].page = 2
          /\ annotations[i].color = "#0000FF"
          /\ annotations[i].fontSize = 24
          /\ annotations[i].text = <<" ", "a">>

\* C14: committing an entry whose text is empty or blank, or cancelling an
\* entry, leaves the collection unchanged and closes the entry; and no text
\* annotation of the collection has an empty trimmed text.
BlankCommitAndCancelDiscard ==
    /\ [][((TextCommitStep /\ IsBlank(textInput.text)) \/ handleTextCancel)
            => annotations' = annotations /\ ~textInput'.visible]_vars
    /\ [](\A i \in DOMAIN annotations :
             annotations[i].type = "text" => ~IsBlank(annotations[i].text))

\* C14 witness: a blank entry is gone while the collection holds the one
\* text annotation committed before it.
BlankCommitWitness ==
    /\ ~textInput.visible
    /\ selectedTool = "text"
    /\ Len(annotations) = 1 /\ annotations[1].type = "text"
    /\ nextId = 2

\* ------------------------------------------------------- render properties
\* A run of the effect that a newer run has superseded is waiting for the
\* continuation of its finished RenderTask.
StaleCompletionPending ==
    \E run \in effects : run.gen < effectGen /\ run.task = "finished"

\* C1: in every step in which the annotation overlay is painted or a scale
\* is reported to the application, the run that does it is the most recently
\* started run of the render effect, whatever the order in which the page
\* fetches and the RenderTasks complete.
OnlyLatestRunPaintsAndReports ==
    [][/\ (canvas'.overlayBy # canvas.overlayBy /\ canvas'.overlayBy # 0)
             => canvas'.overlayBy = effectGen
       /\ scaleReportedBy' # scaleReportedBy => scaleReportedBy' = effectGen]_vars

\* C1 witness: the latest run has painted the overlay while the completion
\* of a superseded run is still to arrive.
StaleCompletionAfterLatestPaint ==
    /\ effectGen >= 2
    /\ canvas.overlayBy = effectGen
    /\ scaleReportedBy = effectGen
    /\ StaleCompletionPending

\* The canvas shows the current page, rendered by the latest run of the
\* effect at the reported scale, with the annotations of the current page
\* painted over it in collection order.
Painted ==
    /\ canvas.page = currentPage
    /\ canvas.scale = actualRenderScale
    /\ canvas.pixels
    /\ canvas.overlayBy = effectGen
    /\ canvas.overlay =
         LET OnCurrentPage(a) == a.page = currentPage
         IN  SelectSeq(annotations, OnCurrentPage)

InRange(scale) == RLe(MIN_SCALE, scale) /\ RLe(scale, MAX_SCALE)

RECURSIVE Pow(_, _)
Pow(r, n) == IF n = 0 THEN RInt(1) ELSE RMul(r, Pow(r, n - 1))

\* C7: the requested numeric scale and the actual render scale always lie
\* in [0.1, 5.0]; after k consecutive zoom-in steps from scale 1 the
\* requested scale is 1.25^k for k < 8 and exactly 5 for k = 8.
ScalesStayInRange ==
    /\ InRange(actualRenderScale)
    /\ targetScale # AutoScale => InRange(targetScale)
    /\ zoomInRun \in 1..7 => targetScale = Pow(ZoomFactor, zoomInRun)
    /\ zoomInRun = 8 => targetScale = Rat(5, 1)

\* C7 witness: eight consecutive zoom-in steps from 1 have been made and
\* the render at the resulting scale has reported it.
EightZoomInsReachFive ==
    /\ zoomInRun = 8
    /\ targetScale = Rat(5, 1)
    /\ actualRenderScale = Rat(5, 1)
    /\ scaleReportedBy = effectGen

\* ------------------------------------------------------- export properties
SourceOf(op) == CHOOSE a \in {annotations[i] : i \in 1..Len(annotations)} : a.id = op.of

\* C6: every rectangle handleSave draws has x = x/s, y = H - (y + h)/s,
\* width = w/s and height = h/s of its annotation, with s the render scale
\* and H the height of the page; every rectangle of nonzero width and height
\* is drawn; and the rectangle (150, 300, 60, 30) at s = 1.5 on the page of
\* height 792 is drawn at (100, 572) with size 40 x 20.
RectangleExportMapping ==
    \A i \in 1..Len(drawOps) :
        LET op == drawOps[i]
            a == SourceOf(op)
            s == actualRenderScale
            H == PageSize(a.page).height
        IN  op.op = "drawRectangle" =>
              /\ a.type = "rect"
              /\ op.x = RDiv(RInt(a.x), s)
              /\ op.y = RSub(RInt(H), RDiv(RInt(a.y + a.height), s))
              /\ op.width = RDiv(RInt(a.width), s)
              /\ op.height = RDiv(RInt(a.height), s)
              /\ (H = 792 /\ s = Rat(3, 2) /\ a.x = 150 /\ a.y = 300
                    /\ a.width = 60 /\ a.height = 30)
                   => /\ op.x = RInt(100) /\ op.y = RInt(572)
                      /\ op.width = RInt(40) /\ op.height = RInt(20)

\* C6 witness: the rectangle of the example has been exported at scale 1.5.
RectangleExampleExported ==
    /\ actualRenderScale = Rat(3, 2)
    /\ Len(annotations) = 1
    /\ annotations[1] = Committed(1, 1, "rect", 150, 300, 60, 30)
    /\ Len(drawOps) = 1
    /\ drawOps[1].op = "drawRectangle"
    /\ drawOps[1].y = RInt(572)

\* ----------------------------------------------------- document properties
\* A step that selects a file whose type is not application/pdf.
InvalidSelectionStep ==
    \E file \in Files : file.type # "application/pdf" /\ handleFileSelected(file)

InvalidTypeMessage == <<"Invalid file type. Please select a PDF file.">>

\* C19: selecting a file whose type is not application/pdf sets the error
\* message, starts no read and no parse (the busy indicator stays off and no
\* file is held), and leaves the document handle, the page count, the
\* collection, the current page and both scales as they were.
InvalidTypeRejected ==
    [][InvalidSelectionStep =>
         /\ error' = InvalidTypeMessage
         /\ pdfFile' = <<>>
         /\ loadPc' = "idle" /\ loadPc = "idle"
         /\ ~isLoading'
         /\ UNCHANGED <<pdfDocProxy, numPages, annotations, currentPage,
                        targetScale, actualRenderScale>>]_vars

\* C19 witness: a file of another type has been selected and rejected.
InvalidTypeWitness ==
    /\ error = InvalidTypeMessage
    /\ pdfFile = <<>>
    /\ pdfDocProxy = <<>>
    /\ loadPc = "idle"
    /\ ~isLoading

\* The step in which the parse of a file the renderer cannot parse settles.
ParseFailureStep ==
    /\ loadPc = "parsing"
    /\ loadPc' # "parsing"
    /\ ~pdfFile[1].parsable

\* C20: when the parse of the selected file fails, the error message is set,
\* and afterwards there is no document handle, the page count is 0, the
\* collection is empty and the busy indicator is off.
ParseFailureResets ==
    [][ParseFailureStep =>
         /\ error' # <<>>
         /\ pdfDocProxy' = <<>>
         /\ numPages' = 0
         /\ annotations' = <<>>
         /\ ~isLoading']_vars

\* C20 witness: a readable file has failed to parse and the session is empty.
ParseFailureWitness ==
    /\ pdfFile # <<>>
    /\ pdfFile[1].readable /\ ~pdfFile[1].parsable
    /\ loadPc = "idle"
    /\ error = <<"Error loading PDF">>
    /\ pdfDocProxy = <<>>
    /\ numPages = 0
    /\ annotations = <<>>
    /\ ~isLoading

\* ------------------------------------------------- export failure properties
\* The log of the current export has a failed entry for one of the steps.
FailedIn(log, steps) ==
    \E i \in 1..Len(log) : log[i].step \in steps /\ ~log[i].ok

\* Every entry of the log for a step other than the font fetch succeeded.
AllButFetchOk(log) ==
    \A i \in 1..Len(log) : log[i].step # "fetch" => log[i].ok

\* A step in which an export ends.
ExportEndStep == savePc # "idle" /\ savePc' = "idle"

\* C16: an export in which reading or re-loading the source, drawing or
\* serialization has failed ends with the error message set, the busy
\* indicator off and no download; and a download is triggered only by the
\* step in which serialization succeeds, after every annotation of the export
\* has been drawn.
FailedExportReportsAndEmitsNothing ==
    /\ [][(ExportEndStep /\ FailedIn(saveLog',
                               {"arrayBuffer", "load", "draw", "serialize"}))
            => /\ error' = <<"Failed to save PDF">>
               /\ downloads' = downloads
               /\ ~isLoading']_vars
    /\ [][downloads' # downloads
            => /\ savePc = "serialize"
               /\ downloads' = downloads + 1
               /\ [step |-> "serialize", ok |-> TRUE]
                    = saveLog'[Len(saveLog') - 1]
               /\ AllButFetchOk(saveLog')
               /\ drawOps = drawAll(saveJob[1].annotations, saveJob[1].scale,
                                    saveJob[1].fontSize)]_vars

\* C16 witness: an export of a text annotation has ended in a failed
\* serialization, with the error set and nothing downloaded.
FailedSerializationWitness ==
    /\ savePc = "idle"
    /\ FailedIn(saveLog, {"serialize"})
    /\ drawOps # <<>>
    /\ error = <<"Failed to save PDF">>
    /\ downloads = 0
    /\ ~isLoading

FontFetchedAtMostOnce == fontFetches <= 1

\* C18: the font is fetched only while no fetched font is cached, and the
\* cached font is never replaced or dropped: after the first successful
\* fetch no export fetches again, while an export after a failed fetch
\* fetches again.
FontFetchedUntilCached ==
    /\ [][fontFetches' # fontFetches => customFontBytes = <<>>]_vars
    /\ [][customFontBytes # <<>> => customFontBytes' = customFontBytes]_vars

\* C18 witness: the first export fetched the font and ended with a download,
\* and the second export is embedding the cached font without a second fetch.
CachedFontReusedWitness ==
    /\ saveCount = 2
    /\ downloads = 1
    /\ savePc = "embed"
    /\ customFontBytes # <<>>
    /\ fontFetches = 1

\* ------------------------------------------------------ session properties
\* The step in which the parse of the selected file succeeds.
LoadSuccessStep == loadPc = "parsing" /\ loadPc' = "idle" /\ pdfDocProxy' # <<>>

\* C21: the step that completes a load sets the collection to empty, the
\* current page to 1, the page count to the page count of the new document
\* and the scale mode to auto; and a step that clears the selected file
\* resets the document handle, the page count and the collection.
LoadDiscardsSession ==
    /\ [][LoadSuccessStep
            => /\ annotations' = <<>>
               /\ currentPage' = 1
               /\ numPages' = pdfDocProxy'[1].numPages
               /\ numPages' = NumPages
               /\ targetScale' = AutoScale]_vars
    /\ [][(pdfFile # <<>> /\ pdfFile' = <<>>)
            => /\ pdfDocProxy' = <<>>
               /\ numPages' = 0
               /\ annotations' = <<>>]_vars

\* C21 witness: a load has completed and the new session is empty.
LoadedWitness ==
    /\ pdfFile = <<PdfFile>>
    /\ pdfDocProxy # <<>>
    /\ loadPc = "idle"
    /\ numPages = NumPages
    /\ annotations = <<>>
    /\ currentPage = 1
    /\ targetScale = AutoScale
    /\ ~isLoading

\* ---------------------------------------------------- transform properties
\* The forward transform of a document-space point <<doc_x, doc_y>>:
\* display_x = doc_x * s, display_y = h * s - doc_y * s.
forward(p, s, h) ==
    <<RMul(p[1], s), RSub(RMul(RInt(h), s), RMul(p[2], s))>>

\* C22: the forward transform takes every point the export has transformed
\* back to where it was on the canvas: the centre of an ellipse to the centre
\* of the circle, the top-left corner of a drawn rectangle to (x, y) of the
\* annotation, and the top of a drawn text to (x, y) of the annotation, at
\* every scale and page height.
ExportRoundTrip ==
    \A i \in 1..Len(drawOps) :
        LET op == drawOps[i]
            a == SourceOf(op)
            s == actualRenderScale
            h == PageSize(a.page).height
        IN  /\ op.op = "drawEllipse" =>
                 forward(<<op.x, op.y>>, s, h)
                   = <<RAdd(RInt(a.x), a.radius), RAdd(RInt(a.y), a.radius)>>
            /\ op.op = "drawRectangle" =>
                 forward(<<op.x, RAdd(op.y, op.height)>>, s, h)
                   = <<RInt(a.x), RInt(a.y)>>
            /\ op.op = "drawText" =>
                 forward(<<op.x, RAdd(op.y, RMul(op.size, BaselineRatio))>>, s, h)
                   = <<RInt(a.x), RInt(a.y)>>

\* C22 witness: a circle with its box at (150, 300) has been exported at
\* scale 1.5 from the page of height 612.
EllipseExportedWitness ==
    /\ actualRenderScale = Rat(3, 2)
    /\ Len(annotations) = 1
    /\ annotations[1].type = "circle"
    /\ annotations[1].page = 2
    /\ annotations[1].x = 150 /\ annotations[1].y = 300
    /\ Len(drawOps) = 1
    /\ drawOps[1].op = "drawEllipse"
    /\ drawOps[1].x = RInt(120)
    /\ drawOps[1].y = RInt(392)

\* --------------------------------------------------------- page properties
\* C23: every annotation of the collection has a page of the loaded
\* document, and no step changes the page of an annotation: an annotation
\* with the same id has the same page before and after every step.
AnnotationPagesValidAndFixed ==
    /\ [](\A i \in DOMAIN annotations : annotations[i].page \in 1..numPages)
    /\ [][\A i \in DOMAIN annotations, j \in DOMAIN annotations' :
             annotations[i].id = annotations'[j].id
               => annotations[i].page = annotations'[j].page]_vars

\* C23 witness: a rectangle started on page 1 has been resized by a drag
\* after the view moved to page 2, and is still on page 1.
DraggedAcrossPageChangeWitness ==
    /\ currentPage = 2
    /\ isDrawing
    /\ currentDrawing # <<>>
    /\ currentDrawing[1].page = 1
    /\ currentDrawing[1].width # 0
    /\ \E i \in DOMAIN annotations :
          /\ annotations[i].id = currentDrawing[1].id
          /\ annotations[i].page = 1
          /\ annotations[i].width = currentDrawing[1].width
    /\ preGesture = <<>>

\* -------------------------------------------------- cancellation properties
\* The runs whose RenderTask is neither cancelled nor completed.
LiveTasks(runs) == {run \in runs : run.task = "running"}

\* C24: the step that requests a new render leaves no RenderTask of an
\* earlier run live (a task in flight is cancelled by that step, before the
\* new run can start its own), and at every moment at most one RenderTask is
\* neither cancelled nor completed.
InFlightCancelledBeforeNext ==
    /\ [][effectGen' # effectGen
            => \A run \in effects' :
                  run.gen # effectGen' => run.task # "running"]_vars
    /\ [](Cardinality(LiveTasks(effects)) <= 1)

\* C24 witness: the task of an earlier run has been cancelled and its promise
\* has not yet rejected, while the task of the latest run is in flight.
CancelledAndLiveWitness ==
    \E old, new \in effects :
        /\ old.gen < new.gen
        /\ old.task = "cancelled"
        /\ new.gen = effectGen
        /\ new.task = "running"
        /\ currentRenderTaskRef = <<new.gen>>

\* ------------------------------------------------ render failure properties
\* A step in which a run whose RenderTask was cancelled ends.
CancelledRunEnds ==
    \E run \in effects :
        /\ run.task = "cancelled"
        /\ \A other \in effects' : other.gen # run.gen

\* C25: the end of a cancelled render reports no error and leaves the error
\* message of the application as it is; and whatever renders have failed
\* before, the latest render request, unless a further request follows or the
\* render itself fails with an unexpected error, completes and paints the
\* annotations of the current page.
CancelSilentAndRendersRecover ==
    /\ [][CancelledRunEnds
            => renderErrors' = renderErrors /\ error' = error]_vars
    /\ \A g \in 1..MaxEffectRuns :
          (effectGen = g) ~> (effectGen # g \/ g \in renderErrors \/ Painted)

\* C25 witness: after a render that failed with an unexpected error, a later
\* render has painted the annotations of the current page.
PaintedAfterFailureWitness ==
    /\ renderErrors # {}
    /\ effectGen \notin renderErrors
    /\ \E g \in renderErrors : g < effectGen
    /\ Painted
    /\ canvas.overlay # <<>>
    /\ error = <<>>

\* ------------------------------------------------------ auto-fit properties
\* The scale clamped to [MIN_SCALE, MAX_SCALE].
Clamped(scale) ==
    IF RLt(scale, Rat(1, 10)) THEN Rat(1, 10)
    ELSE IF RLt(RInt(5), scale) THEN RInt(5) ELSE scale

\* The smaller of two rationals.
Smaller(a, b) == IF RLt(b, a) THEN b ELSE a

\* The run that reports its scale in this step, if it renders in auto mode.
AutoFitReport(run) ==
    /\ run \in effects
    /\ run.pc = "getPage"
    /\ run.targetScale = AutoScale
    /\ scaleReportedBy' = run.gen
    /\ scaleReportedBy # run.gen

\* C26 as stated: in auto mode the scale reported is
\* min(availableWidth / page width, availableHeight / page width), clamped.
AutoFitAsStated ==
    [][\A run \in effects : AutoFitReport(run) =>
          actualRenderScale' =
            Clamped(Smaller(
              Rat(availableWidth(displayArea), PageSize(run.page).width),
              Rat(availableHeight(displayArea), PageSize(run.page).width)))]_vars

\* C26: in auto mode the scale reported is
\* min(availableWidth / page width, availableHeight / page height), clamped
\* to [0.1, 5.0].
AutoFitScale ==
    [][\A run \in effects : AutoFitReport(run) =>
          /\ actualRenderScale' =
               Clamped(Smaller(
                 Rat(availableWidth(displayArea), PageSize(run.page).width),
                 Rat(availableHeight(displayArea), PageSize(run.page).height)))
          /\ canvas'.scale = actualRenderScale']_vars

\* C26 witness: the portrait page in a container 1248 x 460 is limited by
\* the height: 396 / 792 = 1/2, where 396 / 612 would be larger.
HeightLimitedWitness ==
    /\ displayArea = [width |-> 1248, height |-> 460, innerWidth |-> 1248]
    /\ currentPage = 1
    /\ targetScale = AutoScale
    /\ scaleReportedBy = effectGen
    /\ actualRenderScale = Rat(1, 2)
    /\ canvas.page = 1 /\ canvas.scale = Rat(1, 2)

\* ------------------------------------------------ stale completion properties
\* A step in which a run of the render effect that is no longer the latest
\* continues after one of its awaits.
StaleRunContinues ==
    \E run \in effects : ~run.isActive /\ run \notin effects'

\* A step in which the load of a file completes (read error, parse error or
\* success).
LoadEnds == loadPc # "idle" /\ loadPc' = "idle"

AnnotationOf(c, op) == CHOOSE a \in {c[i] : i \in 1..Len(c)} : a.id = op.of

\* C28: no step that changes the requested or the actual scale changes the
\* collection; and the geometry of every drawing call of an export is the
\* stored geometry of its annotation divided by the actual render scale of
\* the moment of the export.
ZoomKeepsGeometryExportDivides ==
    /\ [][(targetScale' # targetScale \/ actualRenderScale' # actualRenderScale)
            => annotations' = annotations]_vars
    /\ [][drawOps' # drawOps =>
            \A i \in 1..Len(drawOps') :
               LET op == drawOps'[i]
                   a == AnnotationOf(annotations, op)
                   s == actualRenderScale
               IN  /\ op.op = "drawRectangle" =>
                        /\ RMul(op.x, s) = RInt(a.x)
                        /\ RMul(op.width, s) = RInt(a.width)
                        /\ RMul(op.height, s) = RInt(a.height)
                   /\ op.op = "drawEllipse" =>
                        /\ RMul(op.x, s) = RAdd(RInt(a.x), a.radius)
                        /\ RMul(op.xScale, s) = a.radius
                        /\ RMul(op.yScale, s) = a.radius
                   /\ op.op = "drawText" =>
                        /\ RMul(op.x, s) = RInt(a.x)
                        /\ RMul(op.size, s) = RInt(a.fontSize)]_vars

\* C28 witness: after a zoom-in from 1 to 1.25 has been rendered, the
\* collection drawn at scale 1 is as it was and has been exported with its
\* geometry divided by 1.25.
ExportedAfterZoomWitness ==
    /\ actualRenderScale = Rat(5, 4)
    /\ targetScale = Rat(5, 4)
    /\ Len(annotations) = 3
    /\ annotations[1] = Committed(1, 1, "rect", 50, 50, 30, 10)
    /\ Len(drawOps) = 3
    /\ drawOps[1].op = "drawRectangle"
    /\ drawOps[1].x = RInt(40)
    /\ drawOps[1].width = RInt(24)
    /\ drawOps[1].height = RInt(8)

\* ------------------------------------------------- busy indicator properties
\* C29: the busy indicator is on exactly while a load or an export is in
\* flight, and whenever it is on it is eventually off again, however the
\* load or the export ends.
BusyWhileInFlightThenCleared ==
    /\ [](isLoading <=> (loadPc # "idle" \/ savePc # "idle"))
    /\ isLoading ~> ~isLoading

\* C29 witness: an export has ended in a failed re-load of the source and the
\* busy indicator is off.
BusyClearedAfterFailureWitness ==
    /\ savePc = "idle"
    /\ loadPc = "idle"
    /\ saveCount = 1
    /\ FailedIn(saveLog, {"load"})
    /\ error = <<"Failed to save PDF">>
    /\ ~isLoading

\* ---------------------------------------------------- file picker properties
\* A step in which a file is selected.
FileSelectedStep == \E file \in Files : handleFileSelected(file)

\* An error is displayed and no document is loaded.
ErrorWithoutDocument == error # <<>> /\ pdfDocProxy = <<>> /\ ~isLoading

\* C30: a file is selected only when no document is loaded, no load or
\* export is in flight and no error is displayed; and once an error is
\* displayed with no document loaded, the picker and the toolbar are both
\* unavailable and every step leaves the error displayed and no document
\* loaded, with no load started.
ErrorWithoutDocumentIsFinal ==
    /\ [][FileSelectedStep
            => /\ pdfDocProxy = <<>> /\ error = <<>> /\ ~isLoading
               /\ loadPc = "idle" /\ savePc = "idle"]_vars
    /\ [](ErrorWithoutDocument => ~FileUploaderShown /\ ~ToolbarEnabled)
    /\ [][ErrorWithoutDocument
            => /\ error' = error
               /\ pdfDocProxy' = <<>>
               /\ UNCHANGED <<pdfFile, loadPc, isLoading>>]_vars

\* C30 witness: the FileReader failed to read the selected file: the error
\* is displayed, no document is loaded and nothing is in flight.
ReadFailureWitness ==
    /\ error = <<"Failed to read file.">>
    /\ pdfFile # <<>>
    /\ pdfDocProxy = <<>>
    /\ loadPc = "idle"
    /\ ~isLoading

====
